---- MODULE Spec2Model ----
(***************************************************************************)
(* A model of ghn's terminal application core (main.go): the Bubble Tea    *)
(* Model, its reducer Update / handleKeyPress, the three commands          *)
(* (fetchNotificationsCmd, markAsReadCmd, openInBrowserCmd) and the        *)
(* delivery of their result messages to the reducer; the renderer View     *)
(* with formatNotificationLine, and openInBrowser with extractIssueNumber, *)
(* each applied on its own to the values it can be given.                  *)
(*                                                                         *)
(* Go slices are 0-based and TLA+ sequences 1-based: selectedIndex keeps   *)
(* the code's 0-based value, and element selectedIndex of the slice is     *)
(* element selectedIndex + 1 of the sequence.                              *)
(***************************************************************************)
EXTENDS Integers, Sequences, FiniteSets, Bags, TLC

\* Bounds of the model.
\* The gateway delivers lists of at most MaxLen notifications.
MaxLen == 2
\* At most MaxInFlight commands are outstanding at a time.
MaxInFlight == 2
\* The reducer on its own is checked on lists of at most MaxItems notifications.
MaxItems == 5
\* openInBrowser is checked on subject URLs of at most MaxURLLen bytes.
MaxURLLen == 3
\* The loop with fairness is checked on lists of at most LiveLen notifications.
LiveLen == 1
\* View is checked on lists of at most MaxRows notifications, with titles of
\* at most MaxTitle characters.
MaxRows == 4
MaxTitle == 24

VARIABLES
    m,        \* the Model value the event loop holds
    pending,  \* the bag of dispatched commands whose result message is still to come
    event,    \* the message the last call of Update processed, the command it came from,
              \* and len(m.notifications) and m.selectedIndex as that call found them
    pc,       \* "running", "quit" (tea.Quit) or "panicked" (index out of range)
    call      \* a function of the program applied on its own: its name and its result

vars == <<m, pending, event, pc, call>>

----------------------------------------------------------------------------
\* Data

\* The nil error.
Nil == "<nil>"

\* strconv of a natural number, as fmt's %d prints it.
Digit(d) == CASE d = 0 -> "0" [] d = 1 -> "1" [] d = 2 -> "2" [] d = 3 -> "3"
              [] d = 4 -> "4" [] d = 5 -> "5" [] d = 6 -> "6" [] d = 7 -> "7"
              [] d = 8 -> "8" [] d = 9 -> "9"

RECURSIVE Itoa(_)
Itoa(n) == IF n < 10 THEN Digit(n) ELSE Itoa(n \div 10) \o Digit(n % 10)

\* A text is a sequence of characters; the Go string that holds it is the
\* sequence of the bytes of its UTF-8 encoding, one byte for an ASCII
\* character and three for a CJK one. A byte is written as the ASCII
\* character it encodes, or in hexadecimal.
UTF8(char) == IF char = "修" THEN <<"E4", "BF", "AE">> ELSE <<char>>

RECURSIVE GoString(_)
GoString(text) == IF text = <<>> THEN <<>> ELSE UTF8(Head(text)) \o GoString(Tail(text))

\* The text of n characters char.
RECURSIVE Repeat(_, _)
Repeat(char, n) == IF n = 0 THEN <<>> ELSE <<char>> \o Repeat(char, n - 1)

\* A Notification as the gateway decodes it; ID is its identity, the other
\* fields are display data. Subject.Title holds a text, the other strings are
\* ASCII.
Notification(i) ==
    [ID         |-> "n" \o Itoa(i),
     Unread     |-> TRUE,
     Repository |-> [FullName |-> "owner/repo"],
     Subject    |-> [Type  |-> "Issue",
                     Title |-> <<"t">>,
                     URL   |-> "https://api.github.com/repos/owner/repo/issues/" \o Itoa(i)]]

\* The zero value Notification{}.
ZeroNotification ==
    [ID         |-> "",
     Unread     |-> FALSE,
     Repository |-> [FullName |-> ""],
     Subject    |-> [Type |-> "", Title |-> <<>>, URL |-> ""]]

RECURSIVE Pick(_, _, _)
Pick(S, i, n) == IF i > n THEN <<>>
                 ELSE (IF i \in S THEN <<Notification(i)>> ELSE <<>>) \o Pick(S, i + 1, n)

\* Every selection of the notifications n1..nn, in the gateway's order.
Lists(n) == {Pick(S, 1, n) : S \in SUBSET (1 .. n)}

\* The lists a successful fetchNotifications can return.
FetchLists == Lists(MaxLen)

\* The errors the gateway calls return.
FetchErrors == {"failed to fetch notifications: exit status 1"}
MarkError == "exit status 1"
OpenError == "exit status 1"

\* The keys read from the terminal, as tea.KeyMsg.String() names them.
Keys == {"q", "ctrl+c", "up", "k", "down", "j", "enter", "r", "f", "F5", "tab", "x"}

\* The sizes the terminal reports.
WindowSizes == {<<80, 24>>, <<40, 10>>}

----------------------------------------------------------------------------
\* Commands

NoCmd == [kind |-> "nil", id |-> "", notification |-> ZeroNotification]

fetchNotificationsCmd ==
    [kind |-> "fetchNotificationsCmd", id |-> "", notification |-> ZeroNotification]

markAsReadCmd(id) ==
    [kind |-> "markAsReadCmd", id |-> id, notification |-> ZeroNotification]

openInBrowserCmd(notification) ==
    [kind |-> "openInBrowserCmd", id |-> "", notification |-> notification]

Quit == [kind |-> "tea.Quit", id |-> "", notification |-> ZeroNotification]

\* The messages the function of a command can return: one per run.
fetchNotificationsResults ==
    {[type |-> "notificationsLoadedMsg", notifications |-> L] : L \in FetchLists}
    \cup {[type |-> "errorMsg", err |-> e] : e \in FetchErrors}

markAsReadResults(id) ==
    {[type |-> "notificationMarkedMsg", id |-> id],
     [type |-> "errorMsg", err |-> "failed to mark as read: " \o MarkError]}

openInBrowserResults(notification) ==
    {[type |-> "statusMsg", text |-> "Opened in browser"],
     [type |-> "errorMsg", err |-> "failed to open in browser: " \o OpenError]}

CmdResults(cmd) ==
    CASE cmd.kind = "fetchNotificationsCmd" -> fetchNotificationsResults
      [] cmd.kind = "markAsReadCmd" -> markAsReadResults(cmd.id)
      [] cmd.kind = "openInBrowserCmd" -> openInBrowserResults(cmd.notification)

----------------------------------------------------------------------------
\* The Model and its reducer

initialModel ==
    [notifications  |-> <<>>,
     selectedIndex  |-> 0,
     loading        |-> TRUE,
     err            |-> Nil,
     showingSummary |-> FALSE,
     summaryContent |-> "",
     statusMessage  |-> "Loading notifications...",
     terminalWidth  |-> 80,
     terminalHeight |-> 24]

\* What a call of Update returns: the new Model and a command (NoCmd for nil);
\* panic is TRUE when the call fails with a runtime panic instead of returning.
Return(model, cmd) == [m |-> model, cmd |-> cmd, panic |-> FALSE]
Panic(model) == [m |-> model, cmd |-> NoCmd, panic |-> TRUE]

UpdateWindowSize(model, msg) ==
    Return([model EXCEPT !.terminalWidth = msg.Width, !.terminalHeight = msg.Height], NoCmd)

LoadedStatus(n) ==
    IF n = 0 THEN "No notifications found"
    ELSE "Loaded " \o Itoa(n) \o " notifications"

\* Seeded fault: the error of an earlier failure survives a successful fetch.
UpdateNotificationsLoaded_KeepsErr(model, msg) ==
    Return([model EXCEPT !.notifications = msg.notifications,
                         !.loading = FALSE,
                         !.statusMessage = LoadedStatus(Len(msg.notifications))],
           NoCmd)

UpdateNotificationsLoaded(model, msg) ==
    Return([model EXCEPT !.notifications = msg.notifications,
                         !.loading = FALSE,
                         !.err = Nil,
                         !.statusMessage = LoadedStatus(Len(msg.notifications))],
           NoCmd)

\* Seeded fault: the search starts from index 0 and keeps it when nothing matches.
IndexOfID_DefaultZero(ns, id) ==
    IF \E i \in 1 .. Len(ns) : ns[i].ID = id
    THEN (CHOOSE i \in 1 .. Len(ns) :
              /\ ns[i].ID = id
              /\ \A j \in 1 .. (i - 1) : ns[j].ID # id) - 1
    ELSE 0

\* The 0-based index of the first notification with this ID, -1 when there is none.
IndexOfID(ns, id) ==
    IF \E i \in 1 .. Len(ns) : ns[i].ID = id
    THEN (CHOOSE i \in 1 .. Len(ns) :
              /\ ns[i].ID = id
              /\ \A j \in 1 .. (i - 1) : ns[j].ID # id) - 1
    ELSE -1

\* append(s[:i], s[i+1:]...) for a 0-based i.
RemoveAt(s, i) == SubSeq(s, 1, i) \o SubSeq(s, i + 2, Len(s))

\* The elements the slice s reads once append(s[:i], s[i+1:]...) has returned:
\* s[:i] has the capacity of s, so append allocates nothing and copies s[i+1:]
\* down over s[i:] in the array s points to; the last element stays in place.
ArrayAfterRemoveAt(s, i) == RemoveAt(s, i) \o <<s[Len(s)]>>

\* Seeded fault: the selection is reset for an empty list only.
ClampSelected_NoClamp(selectedIndex, n) ==
    IF n = 0 THEN 0 ELSE selectedIndex

\* The selection after a removal that leaves n notifications.
ClampSelected(selectedIndex, n) ==
    IF n = 0 THEN 0
    ELSE IF selectedIndex >= n THEN n - 1
    ELSE selectedIndex

UpdateNotificationMarked(model, msg) ==
    LET i == IndexOfID(model.notifications, msg.id)
        ns == IF i >= 0 THEN RemoveAt(model.notifications, i) ELSE model.notifications
        sel == IF i >= 0 THEN ClampSelected(model.selectedIndex, Len(ns))
               ELSE model.selectedIndex
    IN  Return([model EXCEPT !.notifications = ns,
                             !.selectedIndex = sel,
                             !.statusMessage = "Notification marked as read"],
               NoCmd)

\* Seeded fault: a failure drops the list.
UpdateError_ClearsList(model, msg) ==
    Return([model EXCEPT !.notifications = <<>>,
                         !.selectedIndex = 0,
                         !.err = msg.err,
                         !.loading = FALSE,
                         !.statusMessage = "Error: " \o msg.err],
           NoCmd)

\* Seeded fault: a failure leaves loading as it was.
UpdateError_KeepsLoading(model, msg) ==
    Return([model EXCEPT !.err = msg.err,
                         !.statusMessage = "Error: " \o msg.err],
           NoCmd)

UpdateError(model, msg) ==
    Return([model EXCEPT !.err = msg.err,
                         !.loading = FALSE,
                         !.statusMessage = "Error: " \o msg.err],
           NoCmd)

\* Seeded fault: the status of a successful command clears the error.
UpdateStatus_ClearsErr(model, msg) ==
    Return([model EXCEPT !.statusMessage = msg.text, !.err = Nil], NoCmd)

UpdateStatus(model, msg) ==
    Return([model EXCEPT !.statusMessage = msg.text], NoCmd)

\* m.notifications[m.selectedIndex] is in range.
InRange(model) ==
    /\ 0 <= model.selectedIndex
    /\ model.selectedIndex < Len(model.notifications)

KeyUp(model) ==
    Return(IF model.selectedIndex > 0
           THEN [model EXCEPT !.selectedIndex = @ - 1] ELSE model, NoCmd)

\* Seeded fault: the bound of the move down is off by one.
KeyDown_OffByOne(model) ==
    Return(IF model.selectedIndex < Len(model.notifications)
           THEN [model EXCEPT !.selectedIndex = @ + 1] ELSE model, NoCmd)

KeyDown(model) ==
    Return(IF model.selectedIndex < Len(model.notifications) - 1
           THEN [model EXCEPT !.selectedIndex = @ + 1] ELSE model, NoCmd)

KeyEnter(model) ==
    IF Len(model.notifications) > 0
    THEN IF InRange(model)
         THEN Return(model, openInBrowserCmd(model.notifications[model.selectedIndex + 1]))
         ELSE Panic(model)
    ELSE Return(model, NoCmd)

KeyMarkRead(model) ==
    IF Len(model.notifications) > 0
    THEN IF InRange(model)
         THEN Return(model, markAsReadCmd(model.notifications[model.selectedIndex + 1].ID))
         ELSE Panic(model)
    ELSE Return(model, NoCmd)

\* Seeded fault: a refresh is ignored while a fetch is loading.
KeyRefresh_WhenIdle(model) ==
    IF model.loading
    THEN Return(model, NoCmd)
    ELSE Return([model EXCEPT !.loading = TRUE,
                              !.statusMessage = "Refreshing notifications..."],
                fetchNotificationsCmd)

KeyRefresh(model) ==
    Return([model EXCEPT !.loading = TRUE,
                         !.statusMessage = "Refreshing notifications..."],
           fetchNotificationsCmd)

KeyTab(model) ==
    Return([model EXCEPT !.statusMessage = "Summary view coming soon..."], NoCmd)

handleKeyPress(model, msg) ==
    CASE msg.key \in {"q", "ctrl+c"} -> Return(model, Quit)
      [] msg.key \in {"up", "k"}     -> KeyUp(model)
      [] msg.key \in {"down", "j"}   -> KeyDown(model)
      [] msg.key = "enter"           -> KeyEnter(model)
      [] msg.key = "r"               -> KeyMarkRead(model)
      [] msg.key \in {"f", "F5"}     -> KeyRefresh(model)
      [] msg.key = "tab"             -> KeyTab(model)
      [] OTHER                       -> Return(model, NoCmd)

Update(model, msg) ==
    CASE msg.type = "tea.WindowSizeMsg"      -> UpdateWindowSize(model, msg)
      [] msg.type = "tea.KeyMsg"             -> handleKeyPress(model, msg)
      [] msg.type = "notificationsLoadedMsg" -> UpdateNotificationsLoaded(model, msg)
      [] msg.type = "notificationMarkedMsg"  -> UpdateNotificationMarked(model, msg)
      [] msg.type = "errorMsg"               -> UpdateError(model, msg)
      [] msg.type = "statusMsg"              -> UpdateStatus(model, msg)
      [] OTHER                               -> Return(model, NoCmd)

\* What the slice notifications of the caller's Model reads once
\* Update(model, msg) has returned: Update works on a copy of the Model, whose
\* slice points to the same array, and only the removal writes to that array.
CallerNotifications(model, msg) ==
    IF msg.type = "notificationMarkedMsg" /\ IndexOfID(model.notifications, msg.id) >= 0
    THEN ArrayAfterRemoveAt(model.notifications, IndexOfID(model.notifications, msg.id))
    ELSE model.notifications

----------------------------------------------------------------------------
\* Rendering

\* Go's integer division, which truncates toward zero.
Quot(a, b) == IF a >= 0 THEN a \div b ELSE -((-a) \div b)

\* The slice s[:high] of a Go string; it panics unless 0 <= high <= len(s).
SliceTo(s, high) ==
    IF 0 <= high /\ high <= Len(s)
    THEN [panic |-> FALSE, s |-> SubSeq(s, 1, high)]
    ELSE [panic |-> TRUE, s |-> <<>>]

StatusIcon(notification) == IF notification.Unread THEN "●" ELSE "○"

TypeDisplay(notification) ==
    CASE notification.Subject.Type = "PullRequest" -> "pr"
      [] notification.Subject.Type = "Issue"       -> "issue"
      [] notification.Subject.Type = "Release"     -> "release"
      [] notification.Subject.Type = "Discussion"  -> "discuss"
      [] OTHER                                     -> "other"

RepoName(notification) == notification.Repository.FullName

\* The width of the title column.
maxTitleLen(model) ==
    IF model.terminalWidth - 45 < 20 THEN 20 ELSE model.terminalWidth - 45

\* The columns of the row of a notification, which Sprintf lays out in fixed
\* widths; title is a Go string, len and the slice count its bytes.
formatNotificationLine(model, notification, index) ==
    LET title == GoString(notification.Subject.Title)
        cut   == SliceTo(title, maxTitleLen(model) - 3)
        repo  == RepoName(notification)
    IN  [panic      |-> Len(title) > maxTitleLen(model) /\ cut.panic,
         index      |-> index + 1,
         statusIcon |-> StatusIcon(notification),
         repo       |-> IF Len(repo) > 20 THEN SubSeq(repo, 1, 17) \o "..." ELSE repo,
         type       |-> TypeDisplay(notification),
         title      |-> IF Len(title) > maxTitleLen(model)
                        THEN cut.s \o GoString(<<".", ".", ".">>)
                        ELSE title]

\* The rows of the list the frame shows: startIdx and endIdx as the loop over
\* the rows finds them.
VisibleRange(model) ==
    LET n             == Len(model.notifications)
        visibleHeight == model.terminalHeight - 8
        centred       == model.selectedIndex - Quot(visibleHeight, 2)
        startIdx      == IF centred < 0 THEN 0 ELSE centred
        endIdx        == startIdx + visibleHeight
    IN  IF n > visibleHeight
        THEN IF endIdx > n
             THEN [startIdx |-> IF n - visibleHeight < 0 THEN 0 ELSE n - visibleHeight,
                   endIdx   |-> n]
             ELSE [startIdx |-> startIdx, endIdx |-> endIdx]
        ELSE [startIdx |-> 0, endIdx |-> n]

\* The list view: the rows startIdx .. endIdx - 1, the one at selectedIndex
\* in the selected style, and the status line. Reading m.notifications[i]
\* panics when i is out of range.
ListView(model) ==
    LET n     == Len(model.notifications)
        range == IF n > 0 THEN VisibleRange(model) ELSE [startIdx |-> 0, endIdx |-> 0]
        rows  == [i \in range.startIdx .. (range.endIdx - 1) |->
                     IF 0 <= i /\ i < n
                     THEN formatNotificationLine(model, model.notifications[i + 1], i)
                     ELSE [panic |-> TRUE]]
    IN  [kind     |-> "list",
         panic    |-> \E i \in DOMAIN rows : rows[i].panic,
         header   |-> n > 0,
         startIdx |-> range.startIdx,
         endIdx   |-> range.endIdx,
         rows     |-> rows,
         selected |-> {i \in DOMAIN rows : i = model.selectedIndex},
         status   |-> model.statusMessage]

\* Seeded fault: the error frame has priority over the loading frame.
View_ErrorFirst(model) ==
    IF model.err # Nil
    THEN [kind |-> "error", panic |-> FALSE, err |-> model.err]
    ELSE IF model.loading
         THEN [kind |-> "loading", panic |-> FALSE]
         ELSE ListView(model)

\* The frame View returns for a Model.
View(model) ==
    IF model.loading
    THEN [kind |-> "loading", panic |-> FALSE]
    ELSE IF model.err # Nil
         THEN [kind |-> "error", panic |-> FALSE, err |-> model.err]
         ELSE ListView(model)

----------------------------------------------------------------------------
\* Opening a notification in the browser

\* strings.Split(s, sep) for a separator of one byte: the pieces of s between
\* the separators, the empty ones included; Split("", sep) is <<"">>.
RECURSIVE SplitFrom(_, _, _)
SplitFrom(s, sep, piece) ==
    IF s = "" THEN <<piece>>
    ELSE IF Head(s) = sep THEN <<piece>> \o SplitFrom(Tail(s), sep, "")
         ELSE SplitFrom(Tail(s), sep, piece \o Head(s))

Split(s, sep) == SplitFrom(s, sep, "")

extractIssueNumber(url) ==
    LET parts == Split(url, "/")
    IN  IF Len(parts) > 0 THEN parts[Len(parts)] ELSE ""

\* The command line openInBrowser runs.
openInBrowser(notification) ==
    LET repo     == RepoName(notification)
        issueNum == extractIssueNumber(notification.Subject.URL)
    IN  IF issueNum # ""
        THEN CASE notification.Subject.Type = "Issue" ->
                    <<"gh", "issue", "view", issueNum, "-R", repo, "--web">>
               [] notification.Subject.Type = "PullRequest" ->
                    <<"gh", "pr", "view", issueNum, "-R", repo, "--web">>
               [] OTHER ->
                    <<"gh", "repo", "view", repo, "--web">>
        ELSE <<"gh", "repo", "view", repo, "--web">>

----------------------------------------------------------------------------
\* The event loop

\* Seeded fault: a command equal to an outstanding one is not dispatched again.
Dispatch_Dedup(cmds, cmd) ==
    IF cmd.kind \in {"nil", "tea.Quit"} \/ BagIn(cmd, cmds)
    THEN cmds ELSE cmds (+) SetToBag({cmd})

\* The loop hands the command Update returned to the runtime: tea.Quit ends
\* the loop, any other command runs off the loop and is outstanding until its
\* message is delivered.
Dispatch(cmds, cmd) ==
    IF cmd.kind \in {"nil", "tea.Quit"} THEN cmds ELSE cmds (+) SetToBag({cmd})

\* Seeded fault: a command stays outstanding after its message.
Delivered_StillOutstanding(cmds, cmd) == cmds

\* The outstanding commands once the function of cmd has returned its message:
\* that run of cmd is over.
Delivered(cmds, cmd) == cmds (-) SetToBag({cmd})

\* One turn of the loop: Update processes msg, the message of command `from`
\* (NoCmd for a message of the terminal); rest are the commands still
\* outstanding.
\* A panic of the call ends the program with the Model as it was; tea.Quit
\* ends the loop with the Model the call returned, and the messages of the
\* commands still outstanding are then never processed.
Step(msg, from, rest) ==
    LET r == Update(m, msg)
    IN  /\ event' = [msg |-> msg, from |-> from,
                      prevLen |-> Len(m.notifications), prevSel |-> m.selectedIndex]
        /\ UNCHANGED call
        /\ IF r.panic
           THEN /\ pc' = "panicked"
                /\ UNCHANGED m
                /\ pending' = rest
           ELSE /\ m' = r.m
                /\ pending' = Dispatch(rest, r.cmd)
                /\ pc' = IF r.cmd.kind = "tea.Quit" THEN "quit" ELSE "running"

\* No function applied on its own.
NoCall == [fn |-> "none"]

\* No message processed yet.
NoEvent == [msg |-> [type |-> "none"], from |-> NoCmd, prevLen |-> 0, prevSel |-> 0]

\* The program starts: initialModel, and Init's command is dispatched.
Init ==
    /\ m = initialModel
    /\ pending = SetToBag({fetchNotificationsCmd})
    /\ event = NoEvent
    /\ pc = "running"
    /\ call = NoCall

\* The terminal reports a size.
Resize ==
    /\ pc = "running"
    /\ \E wh \in WindowSizes :
          Step([type |-> "tea.WindowSizeMsg", Width |-> wh[1], Height |-> wh[2]],
               NoCmd, pending)

\* The key `key` is pressed. A key whose command would exceed MaxInFlight
\* outstanding commands is not pressed.
KeyPressOf(key) ==
    /\ pc = "running"
    /\ \/ Update(m, [type |-> "tea.KeyMsg", key |-> key]).cmd.kind \in {"nil", "tea.Quit"}
       \/ BagCardinality(pending) < MaxInFlight
    /\ Step([type |-> "tea.KeyMsg", key |-> key], NoCmd, pending)

KeyPress == \E key \in Keys : KeyPressOf(key)

\* The outstanding command cmd returns its message, which the loop processes.
CompleteOf(cmd) ==
    /\ pc = "running"
    /\ BagIn(cmd, pending)
    /\ \E msg \in CmdResults(cmd) :
          Step(msg, cmd, Delivered(pending, cmd))

Complete == \E cmd \in BagToSet(pending) : CompleteOf(cmd)

Next == Resize \/ KeyPress \/ Complete

Spec == Init /\ [][Next]_vars

----------------------------------------------------------------------------
\* The reducer on its own: one call of Update on a loaded Model

\* The commands that can be outstanding over the notifications n1..nn.
AllCmds(n) ==
    {fetchNotificationsCmd}
    \cup {markAsReadCmd(Notification(i).ID) : i \in 1 .. n}
    \cup {openInBrowserCmd(Notification(i)) : i \in 1 .. n}

\* The Model once the startup fetch has delivered L and the selection has been
\* moved down to sel.
Loaded(L, sel) ==
    [UpdateNotificationsLoaded(initialModel,
         [type |-> "notificationsLoadedMsg", notifications |-> L]).m
     EXCEPT !.selectedIndex = sel]

\* A loaded Model with any selection, and at most one command outstanding.
InitReducer ==
    /\ \E L \in Lists(MaxItems) :
          \E sel \in 0 .. (IF Len(L) = 0 THEN 0 ELSE Len(L) - 1) :
              m = Loaded(L, sel)
    /\ pending \in {EmptyBag} \cup {SetToBag({cmd}) : cmd \in AllCmds(MaxItems)}
    /\ event = NoEvent
    /\ pc = "running"
    /\ call = NoCall

\* One message is processed.
NextReducer == event = NoEvent /\ Next

SpecReducer == InitReducer /\ [][NextReducer]_vars

----------------------------------------------------------------------------
\* The loop with its commands running to completion

\* The keys pressed there: one key for each case of handleKeyPress that
\* changes the Model or dispatches a command.
LiveKeys == {"q", "up", "down", "enter", "r", "f"}

\* The loop on lists of at most LiveLen notifications and the keys LiveKeys.
NextLive ==
    /\ Next
    /\ Len(m'.notifications) <= LiveLen
    /\ event'.msg.type = "tea.KeyMsg" => event'.msg.key \in LiveKeys

\* The function of a dispatched command runs in its own goroutine and returns;
\* the loop then reads its message: an outstanding command completes for as
\* long as the loop runs.
Fairness == \A cmd \in AllCmds(LiveLen) : WF_vars(CompleteOf(cmd))

SpecLive == Init /\ [][NextLive]_vars /\ Fairness

----------------------------------------------------------------------------
\* openInBrowser on its own: the command line it runs for one notification

\* The subject types the gateway reports.
SubjectTypes == {"Issue", "PullRequest", "Release", "Discussion", "Commit"}

\* The bytes the subject URLs are made of: the separator, digits and a letter.
URLChars == {"/", "4", "2", "a"}

\* The strings of at most n bytes of chars.
RECURSIVE Strings(_, _)
Strings(chars, n) ==
    IF n = 0 THEN {""}
    ELSE LET S == Strings(chars, n - 1)
         IN  S \cup {s \o c : s \in S, c \in chars}

\* The subject URLs: every string of at most MaxURLLen bytes, the empty one
\* (a subject without URL) included.
URLs == Strings(URLChars, MaxURLLen)

\* The list holds one notification, of any subject type and URL.
InitOpen ==
    /\ \E type \in SubjectTypes, url \in URLs :
          m = Loaded(<<[Notification(1) EXCEPT !.Subject.Type = type,
                                               !.Subject.URL = url]>>, 0)
    /\ pending = EmptyBag
    /\ event = NoEvent
    /\ pc = "running"
    /\ call = NoCall

\* openInBrowser is applied to the selected notification.
OpenInBrowser ==
    /\ call = NoCall
    /\ InRange(m)
    /\ call' = [fn           |-> "openInBrowser",
                notification |-> m.notifications[m.selectedIndex + 1],
                argv         |-> openInBrowser(m.notifications[m.selectedIndex + 1])]
    /\ UNCHANGED <<m, pending, event, pc>>

SpecOpen == InitOpen /\ [][OpenInBrowser]_vars

----------------------------------------------------------------------------
\* View on its own: the frame of one loaded Model

\* The heights and widths the terminal has reported.
Heights == {1, 8, 9, 10, 11, 24}
Widths == {0, 40, 44, 65, 66, 80}

\* The characters of the titles: an ASCII one and a CJK one.
TitleChars == {"a", "修"}

\* The first n notifications, each with this title.
Titled(n, title) == [i \in 1 .. n |-> [Notification(i) EXCEPT !.Subject.Title = title]]

\* A loaded Model with any selection a longer list has left behind, any
\* terminal size, and titles of any length.
InitView ==
    /\ \E n \in 0 .. MaxRows, sel \in 0 .. (MaxRows - 1),
          height \in Heights, width \in Widths,
          char \in TitleChars, len \in 0 .. MaxTitle :
          m = [Loaded(Titled(n, Repeat(char, len)), sel)
                 EXCEPT !.terminalWidth = width, !.terminalHeight = height]
    /\ pending = EmptyBag
    /\ event = NoEvent
    /\ pc = "running"
    /\ call = NoCall

\* The frame of the Model is rendered.
Render ==
    /\ call = NoCall
    /\ call' = [fn |-> "View", frame |-> View(m)]
    /\ UNCHANGED <<m, pending, event, pc>>

SpecView == InitView /\ [][Render]_vars

----------------------------------------------------------------------------
\* Update on its own: one call, and the Model of the caller after it

\* The messages Update can be given.
Messages ==
    {[type |-> "tea.WindowSizeMsg", Width |-> wh[1], Height |-> wh[2]] : wh \in WindowSizes}
    \cup {[type |-> "tea.KeyMsg", key |-> key] : key \in Keys}
    \cup UNION {CmdResults(cmd) : cmd \in AllCmds(MaxItems)}

\* A loaded Model with any valid selection.
InitUpdate ==
    /\ \E L \in Lists(MaxItems) :
          \E sel \in 0 .. (IF Len(L) = 0 THEN 0 ELSE Len(L) - 1) :
              m = Loaded(L, sel)
    /\ pending = EmptyBag
    /\ event = NoEvent
    /\ pc = "running"
    /\ call = NoCall

\* Update is applied to the Model m, which the caller keeps.
UpdateCall ==
    /\ call = NoCall
    /\ \E msg \in Messages :
          call' = [fn     |-> "Update",
                   msg    |-> msg,
                   result |-> Update(m, msg),
                   caller |-> [m EXCEPT !.notifications = CallerNotifications(m, msg)]]
    /\ UNCHANGED <<m, pending, event, pc>>

SpecUpdate == InitUpdate /\ [][UpdateCall]_vars

----------------------------------------------------------------------------
\* The events of the reducer, as the message and the command it came from

IsKey(e, keys) == e.msg.type = "tea.KeyMsg" /\ e.msg.key \in keys
IsFetchCompleted(e) == e.msg.type = "notificationsLoadedMsg"
IsFetchFailed(e) == e.msg.type = "errorMsg" /\ e.from.kind = "fetchNotificationsCmd"
IsMarkReadCompleted(e) == e.msg.type = "notificationMarkedMsg"
IsMarkReadFailed(e) == e.msg.type = "errorMsg" /\ e.from.kind = "markAsReadCmd"
IsOpenCompleted(e) == e.msg.type = "statusMsg"
IsOpenFailed(e) == e.msg.type = "errorMsg" /\ e.from.kind = "openInBrowserCmd"

\* selectedIndex is a valid index into notifications, or 0 when there are none.
SelectedIndexValid(model) ==
    IF Len(model.notifications) = 0
    THEN model.selectedIndex = 0
    ELSE /\ 0 <= model.selectedIndex
         /\ model.selectedIndex <= Len(model.notifications) - 1

\* Some notification of ns has this ID.
HasID(ns, id) == \E i \in 1 .. Len(ns) : ns[i].ID = id

\* The number of outstanding fetches.
Fetches(cmds) == CopiesIn(fetchNotificationsCmd, cmds)

----------------------------------------------------------------------------
\* Properties

\* C1: in every reachable state selectedIndex is a valid index into
\* notifications, or 0 when notifications is empty.
C1_SelectedIndexAlwaysValid == SelectedIndexValid(m)

\* C2: from a state with a valid selectedIndex, a KeyUp or KeyDown leaves
\* selectedIndex valid and notifications unchanged; KeyUp at index 0 and
\* KeyDown at the last index or on an empty list change nothing, and every
\* other KeyUp / KeyDown moves the selection by one.
C2_UpDownStayInRange ==
    [][(IsKey(event', {"up", "k", "down", "j"}) /\ SelectedIndexValid(m)) =>
          /\ SelectedIndexValid(m')
          /\ m'.notifications = m.notifications
          /\ IsKey(event', {"up", "k"}) =>
                m' = [m EXCEPT !.selectedIndex = IF @ = 0 THEN 0 ELSE @ - 1]
          /\ IsKey(event', {"down", "j"}) =>
                m' = [m EXCEPT !.selectedIndex =
                                  IF @ >= Len(m.notifications) - 1 THEN @ ELSE @ + 1]
      ]_vars

\* C2's case: a KeyDown at the last index of a list of two or more, which
\* stays there.
C2_Witness ==
    /\ IsKey(event, {"down", "j"})
    /\ Len(m.notifications) >= 2
    /\ event.prevSel = Len(m.notifications) - 1
    /\ m.selectedIndex = event.prevSel

\* C3: with a valid selectedIndex and n >= 1 notifications, a
\* MarkReadCompleted(id) whose id is in the list yields the list without that
\* notification, the others in their order, and a valid selectedIndex: the
\* new last index when the removed notification was the last one and was
\* selected, 0 when the list becomes empty.
C3_MarkReadRemovesOne ==
    [][(/\ IsMarkReadCompleted(event')
        /\ SelectedIndexValid(m)
        /\ HasID(m.notifications, event'.msg.id)) =>
          LET old == m.notifications
              new == m'.notifications
              n == Len(old)
          IN  /\ Len(new) = n - 1
              /\ \E i \in 1 .. n :
                    /\ old[i].ID = event'.msg.id
                    /\ \A j \in 1 .. (n - 1) : new[j] = IF j < i THEN old[j] ELSE old[j + 1]
              /\ SelectedIndexValid(m')
              /\ (old[n].ID = event'.msg.id /\ m.selectedIndex = n - 1 /\ n >= 2) =>
                    m'.selectedIndex = n - 2
              /\ n = 1 => m'.selectedIndex = 0
      ]_vars

\* C3's case: 5 notifications with the last one selected, and the
\* MarkReadCompleted of that one leaves 4 notifications and selectedIndex 3.
C3_Witness ==
    /\ IsMarkReadCompleted(event)
    /\ event.prevLen = MaxItems
    /\ event.prevSel = MaxItems - 1
    /\ event.msg.id = Notification(MaxItems).ID
    /\ m.notifications = Pick(1 .. (MaxItems - 1), 1, MaxItems)
    /\ m.selectedIndex = MaxItems - 2

\* C4: a MarkReadCompleted(id) whose id is not in the list (the list is
\* empty, or the notification is gone) leaves notifications and selectedIndex
\* as they were, and the loop keeps running.
C4_UnknownIdChangesNothing ==
    [][(IsMarkReadCompleted(event') /\ ~HasID(m.notifications, event'.msg.id)) =>
          /\ m'.notifications = m.notifications
          /\ m'.selectedIndex = m.selectedIndex
          /\ pc' = "running"
      ]_vars

\* C4's case: a MarkReadCompleted processed on an empty list with
\* selectedIndex 0, which stays 0.
C4_Witness ==
    /\ IsMarkReadCompleted(event)
    /\ event.prevLen = 0
    /\ event.prevSel = 0
    /\ m.notifications = <<>>
    /\ m.selectedIndex = 0
    /\ pc = "running"

\* C5: FetchFailed, MarkReadFailed and OpenFailed leave notifications and
\* selectedIndex as they were, and so does pressing r.
C5_FailuresKeepTheList ==
    [][(event'.msg.type = "errorMsg" \/ IsKey(event', {"r"})) =>
          /\ m'.notifications = m.notifications
          /\ m'.selectedIndex = m.selectedIndex
      ]_vars

\* C5's case: a mark-read has failed and its notification is still in the list.
C5_Witness ==
    /\ IsMarkReadFailed(event)
    /\ HasID(m.notifications, event.from.id)

\* C6: MarkReadFailed and OpenFailed change err and statusMessage only; every
\* other field of the Model, loading among them, keeps its value.
C6_MutationFailureChangesOnlyError ==
    [][(IsMarkReadFailed(event') \/ IsOpenFailed(event')) =>
          /\ m'.err = event'.msg.err
          /\ [m' EXCEPT !.err = m.err, !.statusMessage = m.statusMessage] = m
      ]_vars

\* The status messages of a successful fetch.
EmptyMessage == "No notifications found"
CountMessages ==
    <<"Loaded 1 notifications", "Loaded 2 notifications", "Loaded 3 notifications",
      "Loaded 4 notifications">>

\* C7: FetchCompleted(L) sets notifications to L, loading to FALSE and err to
\* nil, sets statusMessage to the empty-state message when L is empty and to
\* the message naming len(L) otherwise, the two being different, changes no
\* other field and dispatches no command.
C7_FetchCompletedReplacesTheList ==
    [][IsFetchCompleted(event') =>
          LET L == event'.msg.notifications
          IN  /\ m' = [m EXCEPT !.notifications = L,
                                !.loading = FALSE,
                                !.err = Nil,
                                !.statusMessage = IF Len(L) = 0 THEN EmptyMessage
                                                  ELSE CountMessages[Len(L)]]
              /\ Len(L) > 0 => m'.statusMessage # EmptyMessage
              /\ pending' = pending (-) SetToBag({event'.from})
              /\ pc' = "running"
      ]_vars

\* C7's case: a fetch that delivers the empty list over a list that was not
\* empty.
C7_Witness ==
    /\ IsFetchCompleted(event)
    /\ event.prevLen > 0
    /\ m.notifications = <<>>
    /\ m.statusMessage = EmptyMessage
    /\ ~m.loading
    /\ m.err = Nil

\* C8: KeyRefresh, in whatever state, sets loading and the refreshing status
\* message, dispatches one fetch and changes nothing else; it can be pressed
\* in every state of the running loop (with room for its command), and while
\* loading is TRUE KeyUp and KeyDown move the selection as they do otherwise.
C8_RefreshHasNoPrecondition ==
    /\ [](pc = "running" /\ BagCardinality(pending) < MaxInFlight =>
              ENABLED KeyPressOf("f") /\ ENABLED KeyPressOf("F5"))
    /\ [][/\ IsKey(event', {"f", "F5"}) =>
                /\ m' = [m EXCEPT !.loading = TRUE,
                                  !.statusMessage = "Refreshing notifications..."]
                /\ pending' = pending (+) SetToBag({fetchNotificationsCmd})
                /\ pc' = "running"
          /\ (m.loading /\ IsKey(event', {"up", "k"}) /\ m.selectedIndex > 0) =>
                m'.selectedIndex = m.selectedIndex - 1
          /\ (/\ m.loading
              /\ IsKey(event', {"down", "j"})
              /\ m.selectedIndex < Len(m.notifications) - 1) =>
                m'.selectedIndex = m.selectedIndex + 1
         ]_vars

\* C8's case: a refresh pressed while a fetch is outstanding and an error is set.
C8_Witness ==
    /\ IsKey(event, {"f", "F5"})
    /\ m.loading
    /\ m.err # Nil
    /\ Fetches(pending) = 2

\* C9: the message of a command is one of the results of an outstanding
\* command, and with it that command is no longer outstanding, so that a
\* dispatched command has at most one message, whether it succeeded or
\* failed; a message of the terminal takes no outstanding command away; and
\* the running loop takes a resize, every key (one that dispatches a command
\* while there is room for it) and the message of any outstanding command,
\* whatever is outstanding.
C9_OneMessagePerCommand ==
    /\ [](pc = "running" =>
              /\ ENABLED Resize
              /\ \A key \in Keys :
                    (\/ key \notin {"enter", "r", "f", "F5"}
                     \/ BagCardinality(pending) < MaxInFlight) => ENABLED KeyPressOf(key)
              /\ \A cmd \in BagToSet(pending) :
                    ENABLED CompleteOf(cmd))
    /\ [][/\ event'.from # NoCmd =>
                /\ BagIn(event'.from, pending)
                /\ event'.msg \in CmdResults(event'.from)
                /\ pending' = pending (-) SetToBag({event'.from})
          /\ event'.from = NoCmd =>
                /\ pending \sqsubseteq pending'
                /\ BagCardinality(pending') <= BagCardinality(pending) + 1
         ]_vars

\* C9's case: a key moved the selection while two commands were outstanding.
C9_Witness ==
    /\ IsKey(event, {"down", "j"})
    /\ m.selectedIndex = event.prevSel + 1
    /\ BagCardinality(pending) = 2

\* C10: a refresh adds a fetch to the outstanding ones and takes none away;
\* each FetchCompleted(L) sets notifications to L and ends one fetch only,
\* each FetchFailed ends one fetch only and keeps the list: with two fetches
\* outstanding both messages are processed, and the list is that of the
\* last FetchCompleted.
C10_LastFetchWins ==
    [][/\ IsKey(event', {"f", "F5"}) =>
             /\ Fetches(pending') = Fetches(pending) + 1
             /\ pending \sqsubseteq pending'
       /\ IsFetchCompleted(event') =>
             /\ m'.notifications = event'.msg.notifications
             /\ Fetches(pending) >= 1
             /\ pending' = pending (-) SetToBag({fetchNotificationsCmd})
       /\ IsFetchFailed(event') =>
             /\ m'.notifications = m.notifications
             /\ Fetches(pending) >= 1
             /\ pending' = pending (-) SetToBag({fetchNotificationsCmd})
      ]_vars

\* C10's case: of two outstanding fetches one has delivered its list, which
\* replaced a list of another length, and the other is still outstanding.
C10_Witness ==
    /\ IsFetchCompleted(event)
    /\ Fetches(pending) = 1
    /\ event.prevLen # Len(m.notifications)
    /\ m.notifications # <<>>

\* C11: KeyEnter and KeyMarkRead leave the Model as it was; on a list that
\* is not empty each dispatches one command, openInBrowserCmd for the
\* notification at selectedIndex, respectively markAsReadCmd for its ID, and
\* the loop keeps running; on an empty list they dispatch nothing.
C11_EnterAndMarkReadOnlyDispatch ==
    [][IsKey(event', {"enter", "r"}) =>
          /\ m' = m
          /\ pc' = "running"
          /\ IF Len(m.notifications) = 0
             THEN pending' = pending
             ELSE /\ InRange(m)
                  /\ LET n == m.notifications[m.selectedIndex + 1]
                     IN  pending' = pending (+) SetToBag({
                             IF IsKey(event', {"enter"})
                             THEN openInBrowserCmd(n) ELSE markAsReadCmd(n.ID)})
      ]_vars

\* C12: in every reachable state the frame View returns is the loading frame
\* whenever loading is TRUE, whether err is set or not, the error frame
\* exactly when loading is FALSE and err is set, and the list view exactly
\* when loading is FALSE and err is nil; View returns a frame for every
\* reachable Model, which it only reads.
C12_FrameKindByPriority ==
    LET frame == View(m)
    IN  /\ ~frame.panic
        /\ m.loading => frame.kind = "loading"
        /\ frame.kind = "error" <=> (~m.loading /\ m.err # Nil)
        /\ frame.kind = "list" <=> (~m.loading /\ m.err = Nil)
        /\ frame.kind = "error" => frame.err = m.err

\* C12's case: loading is TRUE and err is set, and the frame is the loading
\* frame.
C12_Witness ==
    /\ m.loading
    /\ m.err # Nil
    /\ View(m).kind = "loading"

\* A string of decimal digits, one at least.
RECURSIVE IsNumber(_)
IsNumber(s) ==
    /\ s # ""
    /\ Head(s) \in {"0", "1", "2", "3", "4", "5", "6", "7", "8", "9"}
    /\ Tail(s) = "" \/ IsNumber(Tail(s))

\* C13: for a subject of type Issue (respectively PullRequest) whose URL
\* ends in a segment that is a number, openInBrowser runs gh issue view
\* (respectively gh pr view) with that number; for every other URL (empty,
\* ending in "/", or with a last segment that is not a number) and for every
\* other subject type it runs gh repo view.
C13_OpenTargetFromTypeAndURL ==
    call.fn = "openInBrowser" =>
        LET n    == call.notification
            last == extractIssueNumber(n.Subject.URL)
            repo == n.Repository.FullName
        IN  call.argv =
               IF n.Subject.Type = "Issue" /\ IsNumber(last)
               THEN <<"gh", "issue", "view", last, "-R", repo, "--web">>
               ELSE IF n.Subject.Type = "PullRequest" /\ IsNumber(last)
                    THEN <<"gh", "pr", "view", last, "-R", repo, "--web">>
                    ELSE <<"gh", "repo", "view", repo, "--web">>

\* C14: in the list view, whatever terminalHeight is stored, the rows shown
\* are startIdx .. endIdx - 1 with 0 <= startIdx and endIdx <= len, and
\* whenever the list is longer than the terminalHeight - 8 rows available the
\* row at selectedIndex is among them.
C14_SelectedRowInWindow ==
    (call.fn = "View" /\ call.frame.kind = "list") =>
        LET frame == call.frame
            n     == Len(m.notifications)
        IN  /\ ~frame.panic
            /\ 0 <= frame.startIdx
            /\ frame.endIdx <= n
            /\ n > m.terminalHeight - 8 =>
                  /\ frame.startIdx <= m.selectedIndex
                  /\ m.selectedIndex < frame.endIdx

\* C15: whatever terminalWidth is stored and whatever the length of a title,
\* the width of the title column is the larger of terminalWidth - 45 and 20;
\* a title of more characters than that width is shown as its first
\* width - 3 characters and an ellipsis, a position that is neither negative
\* nor beyond the title's length; a title of no more characters than the
\* width is shown as it is.
C15_TitleCutToWidth ==
    (call.fn = "View" /\ call.frame.kind = "list") =>
        \A i \in DOMAIN call.frame.rows :
            LET text  == m.notifications[i + 1].Subject.Title
                width == IF m.terminalWidth - 45 > 20 THEN m.terminalWidth - 45 ELSE 20
            IN  /\ maxTitleLen(m) = width
                /\ ~call.frame.rows[i].panic
                /\ Len(text) > width =>
                      /\ 0 <= width - 3
                      /\ width - 3 <= Len(text)
                      /\ call.frame.rows[i].title =
                            GoString(SubSeq(text, 1, width - 3) \o <<".", ".", ".">>)
                /\ Len(text) <= width => call.frame.rows[i].title = GoString(text)

\* C16: no call of Update writes to the notifications of the Model it was
\* given: after the call, and after the removal of a MarkReadCompleted in
\* particular, the Model of the caller, whose slice shares its array with
\* the slice of the new Model, reads the same notifications in the same
\* positions as before.
C16_CallerListUntouched ==
    call.fn = "Update" => call.caller.notifications = m.notifications

\* C17: in every reachable state of the loop, an enter or r pressed on a
\* list that is not empty finds selectedIndex < len(notifications), so that
\* reading notifications[selectedIndex] is in range and the call of Update
\* returns instead of failing; also after a refresh has delivered a list
\* shorter than selectedIndex + 1.
C17_EnterAndMarkReadInRange ==
    [][(IsKey(event', {"enter", "r"}) /\ Len(m.notifications) > 0) =>
          /\ m.selectedIndex < Len(m.notifications)
          /\ pc' # "panicked"
      ]_vars

\* C18: from the initial state, whose startup fetch is outstanding before any
\* input, loading is TRUE only while a fetch is outstanding, and if from some
\* point on no refresh is pressed then, every outstanding command completing
\* for as long as the loop runs, loading eventually is FALSE and stays
\* FALSE, whether the fetches deliver a list or fail.
C18_LoadingEventuallyFalse ==
    /\ m.loading /\ m.notifications = <<>> /\ m.selectedIndex = 0
    /\ m.terminalWidth = 80 /\ m.terminalHeight = 24
    /\ pending = SetToBag({fetchNotificationsCmd})
    /\ [](m.loading => Fetches(pending) >= 1)
    /\ (<>[][~IsKey(event', {"f", "F5"})]_vars) => <>[](pc = "running" => ~m.loading)

\* C18's case: a refresh was pressed while the startup fetch was outstanding,
\* both fetches have completed, the last one with an error, and loading is
\* FALSE.
C18_Witness ==
    /\ IsFetchFailed(event)
    /\ Fetches(pending) = 0
    /\ ~m.loading
    /\ pc = "running"

\* C19: once err is set, by a failed fetch, mark-read or open, every message
\* but a FetchCompleted leaves it set: a key (f and F5 included), a resize, a
\* MarkReadCompleted, an OpenCompleted; a further failure replaces it with its
\* own error, and a FetchCompleted clears it. While it is set View does not
\* return the list view.
C19_ErrorStaysUntilFetchCompleted ==
    /\ [](m.err # Nil => View(m).kind # "list")
    /\ [][/\ (m.err # Nil /\ ~IsFetchCompleted(event')) =>
                /\ m'.err # Nil
                /\ event'.msg.type # "errorMsg" => m'.err = m.err
          /\ event'.msg.type = "errorMsg" => m'.err = event'.msg.err
          /\ IsFetchCompleted(event') => m'.err = Nil
         ]_vars

\* C19's case: a mark-read has failed, an open has then succeeded, and the
\* error of the mark-read is still set and shown.
C19_Witness ==
    /\ IsOpenCompleted(event)
    /\ m.err = "failed to mark as read: " \o MarkError
    /\ ~m.loading
    /\ View(m).kind = "error"

\* C20: a MarkReadCompleted(id) that removes a notification other than the
\* selected one, before or after it in the list, leaves the selection on the
\* same notification: notifications[selectedIndex] has the same ID before
\* and after the removal.
C20_SelectionFollowsItsNotification ==
    [][(/\ IsMarkReadCompleted(event')
        /\ InRange(m)
        /\ HasID(m.notifications, event'.msg.id)
        /\ m.notifications[m.selectedIndex + 1].ID # event'.msg.id) =>
          /\ InRange(m')
          /\ m'.notifications[m'.selectedIndex + 1].ID = m.notifications[m.selectedIndex + 1].ID
      ]_vars

====
